---- MODULE Spec2Model ----
(***************************************************************************)
(* EV charging analysis: the three analysis scripts                        *)
(* (charging_patterns_analysis.py, ev_analysis.py, temperature_analysis.py)*)
(* modelled as one state machine.  Each run picks one analysis and one CSV  *)
(* and then follows the calls dashboard.py makes for that analysis          *)
(* (lines 23-26, 29, 32-35), statement group by statement group.  An        *)
(* exception ends the run (pc = "raised").  SpecPatterns, SpecTemperature   *)
(* and SpecIqr are the runs of Spec for one analysis, respectively for the  *)
(* two with an IQR filter; SpecTwice runs the loaders alone, each a second  *)
(* time on the same file; SpecOutliers runs the two loaders with an IQR     *)
(* filter on files with graded outliers.                                    *)
(*                                                                          *)
(* Every finite cell of the row catalogues is a multiple of Unit, so        *)
(* the divisions by 4 (quantile interpolation) and by 2 (1.5 * IQR) are     *)
(* exact.                                                                   *)
(*                                                                          *)
(* Floating point cells are modelled as tagged values: a finite number in   *)
(* fixed point (Unit steps per 1.0), NaN, +inf or -inf, with the IEEE       *)
(* rules pandas/numpy apply to them (x/0 = inf, 0/0 = NaN, inf - inf = NaN, *)
(* every comparison with NaN false).                                        *)
(***************************************************************************)
EXTENDS Integers, Sequences, FiniteSets, TLC

(* ------------------------------------------------------------------ *)
(* Bounds of the model                                                          *)
(* ------------------------------------------------------------------ *)
MaxPatternRows == 3
MaxEfficiencyRows == 4
MaxTemperatureRows == 4
(* the loader called again on the same file *)
MaxRerunRows == 2
MaxLoaderRuns == 2
(* files with graded outliers *)
MaxOutlierRows == 5

(* Fixed point: quarter steps of the linear quantile interpolation      *)
(* times the half step of 1.5 * IQR.                                    *)
Unit == 4 * 2

(* ------------------------------------------------------------------ *)
(* float64 values                                                       *)
(* ------------------------------------------------------------------ *)
Num(n) == [k |-> "num", v |-> n]
F(n) == Num(n * Unit)
NaN == [k |-> "nan", v |-> 0]
PosInf == [k |-> "inf", v |-> 1]
NegInf == [k |-> "inf", v |-> -1]
IsNaN(a) == a.k = "nan"
IsFinite(a) == a.k = "num"
Sign(n) == IF n > 0 THEN 1 ELSE IF n < 0 THEN -1 ELSE 0

Neg(a) == IF IsNaN(a) THEN NaN ELSE [a EXCEPT !.v = -a.v]

Add(a, b) ==
    IF IsNaN(a) \/ IsNaN(b) THEN NaN
    ELSE IF a.k = "num" /\ b.k = "num" THEN Num(a.v + b.v)
    ELSE IF a.k = "inf" /\ b.k = "num" THEN a
    ELSE IF a.k = "num" /\ b.k = "inf" THEN b
    ELSE IF a.v = b.v THEN a ELSE NaN

Sub(a, b) == Add(a, Neg(b))

(* a * (p / q) for a rational p / q >= 0 *)
Times(a, p, q) ==
    IF IsNaN(a) THEN NaN
    ELSE IF a.k = "num" THEN Num((a.v * p) \div q)
    ELSE IF p = 0 THEN NaN ELSE a

(* a / b, element of a pandas Series division *)
Div(a, b) ==
    IF IsNaN(a) \/ IsNaN(b) THEN NaN
    ELSE IF b.k = "inf" THEN (IF a.k = "inf" THEN NaN ELSE Num(0))
    ELSE IF b.v = 0
         THEN (IF a.k = "inf" THEN a
               ELSE IF a.v = 0 THEN NaN
               ELSE [k |-> "inf", v |-> Sign(a.v)])
    ELSE IF a.k = "inf" THEN [k |-> "inf", v |-> a.v * Sign(b.v)]
    ELSE Num((a.v * Unit) \div b.v)

Lt(a, b) ==
    /\ ~IsNaN(a)
    /\ ~IsNaN(b)
    /\ IF a.k = "num" /\ b.k = "num" THEN a.v < b.v
       ELSE IF a.k = "inf" /\ b.k = "num" THEN a.v < 0
       ELSE IF a.k = "num" /\ b.k = "inf" THEN b.v > 0
       ELSE a.v < b.v
Le(a, b) == ~IsNaN(a) /\ ~IsNaN(b) /\ (a = b \/ Lt(a, b))
Gt(a, b) == Lt(b, a)
Ge(a, b) == Le(b, a)

(* ------------------------------------------------------------------ *)
(* Sequences                                                            *)
(* ------------------------------------------------------------------ *)
Range(s) == {s[i] : i \in DOMAIN s}
Min(a, b) == IF a < b THEN a ELSE b

(* Series.unique(): values in order of first appearance *)
RECURSIVE Unique(_)
Unique(s) ==
    IF s = <<>> THEN <<>>
    ELSE LET h == Head(s)
             NotH(x) == x # h
         IN <<h>> \o Unique(SelectSeq(Tail(s), NotH))

(* ------------------------------------------------------------------ *)
(* Series.quantile(p / 4), linear interpolation, missing values skipped *)
(* ------------------------------------------------------------------ *)
NotNaN(a) == ~IsNaN(a)

Lerp(a, b, g) ==
    LET diff == Sub(b, a)
    IN IF 2 * g >= 4 THEN Sub(b, Times(diff, 4 - g, 4))
       ELSE Add(a, Times(diff, g, 4))

Quantile(col, p) ==
    LET vals == SortSeq(SelectSeq(col, NotNaN), Lt)
        n == Len(vals)
        pos4 == (n - 1) * p
        prev == (pos4 \div 4) + 1
        next == Min(prev + 1, n)
    IN IF n = 0 THEN NaN ELSE Lerp(vals[prev], vals[next], pos4 % 4)

(* <<Q1 - 1.5 * IQR, Q3 + 1.5 * IQR>> *)
Fences(col) ==
    LET Q1 == Quantile(col, 1)
        Q3 == Quantile(col, 3)
        IQR == Sub(Q3, Q1)
    IN <<Sub(Q1, Times(IQR, 3, 2)), Add(Q3, Times(IQR, 3, 2))>>

(* ------------------------------------------------------------------ *)
(* pd.cut(x, bins, labels): right-closed intervals (bins[i], bins[i+1]] *)
(* ------------------------------------------------------------------ *)
NA == "<NA>"

Cut(x, bins, labels) ==
    LET hit == {i \in 1..Len(labels) : Lt(bins[i], x) /\ Le(x, bins[i + 1])}
    IN IF hit = {} THEN NA ELSE labels[CHOOSE i \in hit : TRUE]

TimeBins == <<NegInf, F(6), F(12), F(18), PosInf>>
TimeLabels == <<"Night", "Morning", "Afternoon", "Evening">>
TempBins == <<NegInf, F(0), F(10), F(20), F(30), F(40)>>
TempLabels == <<"Below 0", "0-10", "10-20", "20-30", "30-40">>

(* ------------------------------------------------------------------ *)
(* The CSV: one record per charging session                             *)
(* ------------------------------------------------------------------ *)
CsvColumns == {"SoC_Start", "SoC_End", "Start_Hour", "Start_Day",
               "User_Type", "Vehicle_Model", "Energy_Consumed", "Distance_Driven", "Charging_Cost",
               "Battery_Capacity", "Vehicle_Age", "Temperature"}

BaseRow == [SoC_Start |-> F(20), SoC_End |-> F(90),
            Start_Hour |-> 9, Start_Day |-> "Monday",
            User_Type |-> "Commuter", Vehicle_Model |-> "Tesla",
            Energy_Consumed |-> F(2), Distance_Driven |-> F(2), Charging_Cost |-> F(2),
            Battery_Capacity |-> F(2), Vehicle_Age |-> F(1), Temperature |-> F(25)]

SocPairs == {<<F(90), F(10)>>, <<F(90), F(90)>>, <<F(0), F(100)>>,
             <<F(0), F(110)>>, <<NaN, F(90)>>}
WithSoc == {[BaseRow EXCEPT !.SoC_Start = p[1], !.SoC_End = p[2]] : p \in SocPairs}

(* rows read by charging_patterns_analysis.py: the state of charge, the *)
(* start time, the user type and the energy consumed (line 67)          *)
PatternRows ==
    {BaseRow} \cup WithSoc
    \cup {[BaseRow EXCEPT !.Energy_Consumed = NaN]}
    \cup {[BaseRow EXCEPT !.Start_Hour = h] : h \in {6, 12, 18}}
    \cup {[BaseRow EXCEPT !.User_Type = u] : u \in {"Casual", "Traveler", NA}}
    \cup {[BaseRow EXCEPT !.Start_Day = "Tuesday"]}

(* rows read by ev_analysis.py, and the state of charge, which it does *)
(* not read                                                           *)
EfficiencyRows ==
    {BaseRow}
    \cup {[BaseRow EXCEPT !.Charging_Cost = F(8)]}
    \cup {[BaseRow EXCEPT !.Energy_Consumed = F(0)]}
    \cup {[BaseRow EXCEPT !.Battery_Capacity = b] : b \in {F(9), NaN}}
    \cup {[BaseRow EXCEPT !.Vehicle_Age = NaN]}
    \cup {[BaseRow EXCEPT !.Vehicle_Model = m] : m \in {"BMW", NA}}
    \cup {[BaseRow EXCEPT !.SoC_Start = F(90), !.SoC_End = F(10)]}

(* rows read by temperature_analysis.py, and the state of charge *)
TemperatureRows ==
    {BaseRow}
    \cup {[BaseRow EXCEPT !.Temperature = t] : t \in {F(0), F(40), F(41), NaN}}
    \cup {[BaseRow EXCEPT !.Energy_Consumed = F(8)]}
    \cup {[BaseRow EXCEPT !.Distance_Driven = F(0)]}
    \cup {[BaseRow EXCEPT !.SoC_Start = F(90), !.SoC_End = F(10)]}

(* files whose ratios are 1, 4 and 16: removing the largest makes the   *)
(* next one an outlier of what is left                                  *)
CostOutlierRows == {[BaseRow EXCEPT !.Charging_Cost = c] : c \in {F(2), F(8), F(32)}}
EnergyOutlierRows == {[BaseRow EXCEPT !.Energy_Consumed = e] : e \in {F(2), F(8), F(32)}}

Files(rows, n) == UNION {[1..m -> rows] : m \in 0..n}

(* pd.read_csv: a RangeIndex 1..n in file order *)
ReadCsv(file) == [i \in 1..Len(file) |-> file[i] @@ [index |-> i]]

Col(rows, c) == [i \in 1..Len(rows) |-> rows[i][c]]

(* df[c] = values: one value per row *)
Assign(frame, c, values) ==
    [columns |-> frame.columns \cup {c},
     rows |-> [i \in 1..Len(frame.rows) |->
                 [x \in (DOMAIN frame.rows[i]) \cup {c} |->
                    IF x = c THEN values[i] ELSE frame.rows[i][x]]]]

EmptyFrame == [columns |-> {}, rows |-> <<>>]
NoBounds == [lower_bound_cost |-> NaN, upper_bound_cost |-> NaN,
             lower_bound_battery |-> NaN, upper_bound_battery |-> NaN,
             lower_bound |-> NaN, upper_bound |-> NaN]

(* ------------------------------------------------------------------ *)
(* groupby / crosstab: rows whose key has a missing component are left  *)
(* out (dropna=True), only observed keys appear                         *)
(* ------------------------------------------------------------------ *)
HasNA(key) == \E j \in DOMAIN key : key[j] = NA

(* the key of a row under groupby(by), by a sequence of column names *)
KeyOf(r, by) == [j \in DOMAIN by |-> r[by[j]]]

(* groupby(by) as it would be without observed=True on categorical     *)
(* keys: every combination of the values of the key columns             *)
GroupCountsUnobserved(rows, by) ==
    LET keys == {k \in [DOMAIN by -> UNION {Range(Col(rows, by[j])) : j \in DOMAIN by}] :
                    \A j \in DOMAIN by : k[j] \in Range(Col(rows, by[j]))}
    IN [k \in {x \in keys : ~HasNA(x)} |->
          Cardinality({i \in DOMAIN rows : KeyOf(rows[i], by) = k})]

GroupCounts(rows, by) ==
    LET keys == {KeyOf(rows[i], by) : i \in DOMAIN rows}
    IN [k \in {x \in keys : ~HasNA(x)} |->
          Cardinality({i \in DOMAIN rows : KeyOf(rows[i], by) = k})]

(* the values of column c in the group with key k *)
GroupSample(rows, by, k, c) ==
    LET InGroup(r) == KeyOf(r, by) = k IN Col(SelectSeq(rows, InGroup), c)

RECURSIVE SumOver(_, _)
SumOver(f, S) ==
    IF S = {} THEN 0
    ELSE LET x == CHOOSE y \in S : TRUE IN f[x] + SumOver(f, S \ {x})
Total(f) == SumOver(f, DOMAIN f)

NoTable == [k \in {} |-> 0]

(* pd.qcut(col, q=4, labels=[Q1..Q4]): edges are the quartiles, which   *)
(* must be unique                                                       *)
QcutEdges(col) == [j \in 1..5 |-> Quantile(col, j - 1)]
QcutFails(edges) == \E j \in 1..4 : ~Lt(edges[j], edges[j + 1])
QcutLabels == <<"Q1", "Q2", "Q3", "Q4">>
Qcut(x, edges) == IF x = edges[1] THEN "Q1" ELSE Cut(x, edges, QcutLabels)

(* ------------------------------------------------------------------ *)
(* df.pivot_table(values, index, columns, aggfunc='mean'): the groups   *)
(* without a value are dropped (dropna=True), the rest is unstacked, so *)
(* the rows are the index values that occur, the columns the column     *)
(* values that occur, and a pair that does not occur is a NaN cell      *)
(* ------------------------------------------------------------------ *)
RECURSIVE SumSeq(_)
SumSeq(s) == IF s = <<>> THEN Num(0) ELSE Add(Head(s), SumSeq(Tail(s)))

(* Series.mean(), missing values skipped, NaN for an empty sample; the  *)
(* quotient is rounded to the fixed-point grid                          *)
Mean(col) ==
    LET vals == SelectSeq(col, NotNaN)
    IN IF vals = <<>> THEN NaN ELSE Times(SumSeq(vals), 1, Len(vals))

PivotTable(rows, values, index, columns) ==
    LET Filled(r) == r[index] # NA /\ r[columns] # NA /\ ~IsNaN(r[values])
        used == SelectSeq(rows, Filled)
    IN [index |-> Range(Col(used, index)),
        columns |-> Range(Col(used, columns)),
        cells |-> [k \in Range(Col(used, index)) \X Range(Col(used, columns)) |->
                     Mean(GroupSample(used, <<index, columns>>, k, values))]]

NoPivot == [index |-> {}, columns |-> {}, cells |-> <<>>]

NoTests == [name |-> "none", groups |-> <<>>, result |-> "none", warning |-> FALSE]

NoInsights == <<>>

VARIABLES script, csv, pc, df, df_local, bounds, printed, aggregates,
          contingency, tests, error, previous, pivot_data, insights

vars == <<script, csv, pc, df, df_local, bounds, printed, aggregates,
          contingency, tests, error, previous, pivot_data, insights>>

Init ==
    /\ script \in {"patterns", "efficiency", "temperature"}
    /\ csv \in CASE script = "patterns" -> Files(PatternRows, MaxPatternRows)
               [] script = "efficiency" -> Files(EfficiencyRows, MaxEfficiencyRows)
               [] OTHER -> Files(TemperatureRows, MaxTemperatureRows)
    /\ pc = "start"
    /\ df = EmptyFrame
    /\ df_local = EmptyFrame
    /\ bounds = NoBounds
    /\ printed = <<>>
    /\ aggregates = <<>>
    /\ contingency = NoTable
    /\ tests = NoTests
    /\ error = "none"
    /\ previous = <<>>
    /\ pivot_data = NoPivot
    /\ insights = NoInsights

Raise(e) == pc' = "raised" /\ error' = e

(* ------------------------------------------------------------------ *)
(* charging_patterns_analysis.py : load_and_prepare_data                *)
(* ------------------------------------------------------------------ *)
PercentageCharged(r) == Sub(r.SoC_End, r.SoC_Start)
ValidPercentageExclusive(r) == Gt(r.Percentage_Charged, F(0)) /\ Lt(r.Percentage_Charged, F(100))
ValidPercentage(r) == Ge(r.Percentage_Charged, F(0)) /\ Le(r.Percentage_Charged, F(100))
NegativePercentage(r) == Lt(r.Percentage_Charged, F(0))
PercentageAbove100(r) == Gt(r.Percentage_Charged, F(100))
HourOf(r) == r.Start_Hour
DayOfWeek(r) == r.Start_Day
TimeOfDay(r) == Cut(F(r.Hour), TimeBins, TimeLabels)

(* the loader as it would be if it kept the rows of its last call and   *)
(* appended the file to them                                            *)
PatLoadFilterKeepingRows ==
    /\ script = "patterns" /\ pc = "start"
    /\ LET raw == [columns |-> CsvColumns \cup {"index"},
                   rows |-> df.rows \o ReadCsv(csv)]
           withPct == Assign(raw, "Percentage_Charged",
                             [i \in DOMAIN raw.rows |-> PercentageCharged(raw.rows[i])])
       IN df' = [withPct EXCEPT !.rows = SelectSeq(withPct.rows, ValidPercentage)]
    /\ pc' = "pat_filtered"
    /\ UNCHANGED <<script, csv, previous, pivot_data, insights, df_local, bounds, printed, aggregates,
                   contingency, tests, error>>

(* lines 32-42: read, derive Percentage Charged, keep [0, 100] *)
PatLoadFilter ==
    /\ script = "patterns" /\ pc = "start"
    /\ LET raw == [columns |-> CsvColumns \cup {"index"}, rows |-> ReadCsv(csv)]
           withPct == Assign(raw, "Percentage_Charged",
                             [i \in DOMAIN raw.rows |-> PercentageCharged(raw.rows[i])])
       IN df' = [withPct EXCEPT !.rows = SelectSeq(withPct.rows, ValidPercentage)]
    /\ pc' = "pat_filtered"
    /\ UNCHANGED <<script, csv, previous, pivot_data, insights, df_local, bounds, printed, aggregates,
                   contingency, tests, error>>

(* lines 44-47: the two counts are taken from the filtered df *)
PatLoadPrint ==
    /\ script = "patterns" /\ pc = "pat_filtered"
    /\ printed' = <<Len(SelectSeq(df.rows, NegativePercentage)),
                    Len(SelectSeq(df.rows, PercentageAbove100))>>
    /\ pc' = "pat_printed"
    /\ UNCHANGED <<script, csv, previous, pivot_data, insights, df, df_local, bounds, aggregates,
                   contingency, tests, error>>

(* lines 49-58: Hour, Day of Week, Time of Day *)
PatLoadFeatures ==
    /\ script = "patterns" /\ pc = "pat_printed"
    /\ LET withHour == Assign(df, "Hour", [i \in DOMAIN df.rows |-> HourOf(df.rows[i])])
           withDay == Assign(withHour, "Day_of_Week",
                             [i \in DOMAIN df.rows |-> DayOfWeek(df.rows[i])])
       IN df' = Assign(withDay, "Time_of_Day",
                       [i \in DOMAIN df.rows |-> TimeOfDay(withDay.rows[i])])
    /\ pc' = "loaded"
    /\ UNCHANGED <<script, csv, previous, pivot_data, insights, df_local, bounds, printed, aggregates,
                   contingency, tests, error>>

(* ------------------------------------------------------------------ *)
(* charging_patterns_analysis.py : analyze_charging_behavior            *)
(* ------------------------------------------------------------------ *)
AnalyzeChargingBehavior ==
    /\ script = "patterns" /\ pc = "loaded"
    /\ aggregates' = [day_patterns |-> GroupCounts(df.rows, <<"User_Type", "Day_of_Week">>),
                      time_patterns |-> GroupCounts(df.rows, <<"User_Type", "Time_of_Day">>)]
    /\ pc' = "analyzed"
    /\ UNCHANGED <<script, csv, previous, pivot_data, insights, df, df_local, bounds, printed,
                   contingency, tests, error>>

(* ------------------------------------------------------------------ *)
(* charging_patterns_analysis.py : perform_statistical_tests            *)
(* ------------------------------------------------------------------ *)
Levels(rows, c) == Range(Col(rows, c)) \ {NA}

(* a factor of the two-way ANOVA with fewer than two levels *)
DegenerateDesign(rows) ==
    \/ Cardinality(Levels(rows, "User_Type")) < 2
    \/ Cardinality(Levels(rows, "Day_of_Week")) < 2
    \/ Cardinality(Levels(rows, "Time_of_Day")) < 2

(* lines 89-104: the copy with formula-friendly names and the two       *)
(* statsmodels fits.  What statsmodels does with a constant factor is   *)
(* library behaviour: it either raises or reports undefined values.     *)
PstAnova ==
    /\ script = "patterns" /\ pc = "analyzed"
    /\ df_local' = Assign(Assign(Assign(Assign(df,
                     "percentage_charged", Col(df.rows, "Percentage_Charged")),
                     "day_of_week", Col(df.rows, "Day_of_Week")),
                     "time_of_day", Col(df.rows, "Time_of_Day")),
                     "user_type", Col(df.rows, "User_Type"))
    /\ \/ /\ pc' = "pst_anova"
          /\ UNCHANGED error
       \/ /\ DegenerateDesign(df.rows)
          /\ Raise("ValueError")
    /\ UNCHANGED <<script, csv, previous, pivot_data, insights, df, bounds, printed, aggregates,
                   contingency, tests>>

(* lines 106-108: pd.crosstab and chi2_contingency, which rejects an    *)
(* empty table                                                          *)
PstChiSquare ==
    /\ script = "patterns" /\ pc = "pst_anova"
    /\ contingency' = GroupCounts(df_local.rows, <<"User_Type", "Time_of_Day">>)
    /\ IF DOMAIN contingency' = {}
       THEN Raise("ValueError")
       ELSE pc' = "pst_chi" /\ UNCHANGED error
    /\ UNCHANGED <<script, csv, previous, pivot_data, insights, df, df_local, bounds, printed, aggregates, tests>>

(* df[df['User Type'] == u]['percentage_charged']; NaN == NaN is false *)
Sample(rows, u) ==
    LET IsU(r) == r.User_Type # NA /\ r.User_Type = u
    IN Col(SelectSeq(rows, IsU), "percentage_charged")

(* lines 110-122 *)
PstTTest ==
    /\ script = "patterns" /\ pc = "pst_chi"
    /\ LET user_types == Unique(Col(df_local.rows, "User_Type"))
       IN IF Len(user_types) < 2
          THEN Raise("IndexError") /\ UNCHANGED tests
          ELSE /\ tests' = [name |-> "t_test",
                             groups |-> <<Sample(df_local.rows, user_types[1]),
                                          Sample(df_local.rows, user_types[2])>>,
                             result |-> "computed", warning |-> FALSE]
               /\ pc' = "tested"
               /\ UNCHANGED error
    /\ UNCHANGED <<script, csv, previous, pivot_data, insights, df, df_local, bounds, printed, aggregates,
                   contingency>>

(* lines 124-177: the heat map is drawn from the pivot table of lines   *)
(* 142-147                                                              *)
CreatePatternVisualizations ==
    /\ script = "patterns" /\ pc = "tested"
    /\ pivot_data' = PivotTable(df.rows, "Percentage_Charged",
                                "Time_of_Day", "Day_of_Week")
    /\ pc' = "visualized"
    /\ UNCHANGED <<script, csv, previous, insights, df, df_local, bounds, printed, aggregates,
                   contingency, tests, error>>

(* lines 179-204 *)
PatDescriptiveStats ==
    /\ script = "patterns" /\ pc = "visualized"
    /\ pc' = "done"
    /\ UNCHANGED <<script, csv, previous, pivot_data, insights, df, df_local, bounds, printed, aggregates,
                   contingency, tests, error>>

(* ------------------------------------------------------------------ *)
(* ev_analysis.py : load_and_prepare_data                               *)
(* ------------------------------------------------------------------ *)
CostEfficiency(r) == Div(r.Charging_Cost, r.Energy_Consumed)

(* lines 51-54: the columns of dropna(subset=numeric_cols) *)
numeric_cols == {"Vehicle_Age", "Battery_Capacity", "Charging_Cost",
                 "Energy_Consumed", "cost_efficiency"}
Complete(r) == \A c \in numeric_cols : ~IsNaN(r[c])

InsideLowerCostAndBattery(r, b) ==
    /\ Ge(r.cost_efficiency, b.lower_bound_cost)
    /\ Ge(r.Battery_Capacity, b.lower_bound_battery)
    /\ Le(r.Battery_Capacity, b.upper_bound_battery)

InsideCostAndBattery(r, b) ==
    /\ Ge(r.cost_efficiency, b.lower_bound_cost)
    /\ Le(r.cost_efficiency, b.upper_bound_cost)
    /\ Ge(r.Battery_Capacity, b.lower_bound_battery)
    /\ Le(r.Battery_Capacity, b.upper_bound_battery)

(* the loader as it would be with the percentage filter of the charging *)
(* patterns loader placed before the fences                             *)
EffLoadFilterAfterPercentage ==
    /\ script = "efficiency" /\ pc = "start"
    /\ LET raw == [columns |-> CsvColumns \cup {"index"}, rows |-> ReadCsv(csv)]
           withPct == Assign(raw, "Percentage_Charged",
                             [i \in DOMAIN raw.rows |-> PercentageCharged(raw.rows[i])])
           valid == [withPct EXCEPT !.rows = SelectSeq(withPct.rows, ValidPercentage)]
           full == Assign(valid, "cost_efficiency",
                          [i \in DOMAIN valid.rows |-> CostEfficiency(valid.rows[i])])
           cost == Fences(Col(full.rows, "cost_efficiency"))
           battery == Fences(Col(full.rows, "Battery_Capacity"))
           b == [NoBounds EXCEPT
                   !.lower_bound_cost = cost[1], !.upper_bound_cost = cost[2],
                   !.lower_bound_battery = battery[1], !.upper_bound_battery = battery[2]]
           Keep(r) == InsideCostAndBattery(r, bounds')
       IN /\ bounds' = b
          /\ df' = [full EXCEPT !.rows = SelectSeq(full.rows, Keep)]
    /\ pc' = "eff_filtered"
    /\ UNCHANGED <<script, csv, previous, pivot_data, insights, df_local, printed, aggregates,
                   contingency, tests, error>>

(* the loader as it would be with the missing-value drop of lines 50-54 *)
(* placed before the fences                                             *)
EffLoadFilterDropnaFirst ==
    /\ script = "efficiency" /\ pc = "start"
    /\ LET raw == [columns |-> CsvColumns \cup {"index"}, rows |-> ReadCsv(csv)]
           all == Assign(raw, "cost_efficiency",
                         [i \in DOMAIN raw.rows |-> CostEfficiency(raw.rows[i])])
           full == [all EXCEPT !.rows = SelectSeq(all.rows, Complete)]
           cost == Fences(Col(full.rows, "cost_efficiency"))
           battery == Fences(Col(full.rows, "Battery_Capacity"))
           b == [NoBounds EXCEPT
                   !.lower_bound_cost = cost[1], !.upper_bound_cost = cost[2],
                   !.lower_bound_battery = battery[1], !.upper_bound_battery = battery[2]]
           Keep(r) == InsideCostAndBattery(r, bounds')
       IN /\ bounds' = b
          /\ df' = [full EXCEPT !.rows = SelectSeq(full.rows, Keep)]
    /\ pc' = "eff_filtered"
    /\ UNCHANGED <<script, csv, previous, pivot_data, insights, df_local, printed, aggregates,
                   contingency, tests, error>>

(* the loader as it would be with two filters in sequence: the cost    *)
(* criterion first, the battery fences from the rows it left            *)
EffLoadFilterCostThenBattery ==
    /\ script = "efficiency" /\ pc = "start"
    /\ LET raw == [columns |-> CsvColumns \cup {"index"}, rows |-> ReadCsv(csv)]
           full == Assign(raw, "cost_efficiency",
                          [i \in DOMAIN raw.rows |-> CostEfficiency(raw.rows[i])])
           cost == Fences(Col(full.rows, "cost_efficiency"))
           InsideCost(r) == /\ Ge(r.cost_efficiency, cost[1])
                            /\ Le(r.cost_efficiency, cost[2])
           reduced == SelectSeq(full.rows, InsideCost)
           battery == Fences(Col(reduced, "Battery_Capacity"))
           b == [NoBounds EXCEPT
                   !.lower_bound_cost = cost[1], !.upper_bound_cost = cost[2],
                   !.lower_bound_battery = battery[1], !.upper_bound_battery = battery[2]]
           Keep(r) == InsideCostAndBattery(r, bounds')
       IN /\ bounds' = b
          /\ df' = [full EXCEPT !.rows = SelectSeq(reduced, Keep)]
    /\ pc' = "eff_filtered"
    /\ UNCHANGED <<script, csv, previous, pivot_data, insights, df_local, printed, aggregates,
                   contingency, tests, error>>

(* lines 12-41: read, derive cost_efficiency, both pairs of fences from *)
(* the whole frame, one combined filter                                 *)
EffLoadFilter ==
    /\ script = "efficiency" /\ pc = "start"
    /\ LET raw == [columns |-> CsvColumns \cup {"index"}, rows |-> ReadCsv(csv)]
           full == Assign(raw, "cost_efficiency",
                          [i \in DOMAIN raw.rows |-> CostEfficiency(raw.rows[i])])
           cost == Fences(Col(full.rows, "cost_efficiency"))
           battery == Fences(Col(full.rows, "Battery_Capacity"))
           b == [NoBounds EXCEPT
                   !.lower_bound_cost = cost[1], !.upper_bound_cost = cost[2],
                   !.lower_bound_battery = battery[1], !.upper_bound_battery = battery[2]]
           Keep(r) == InsideCostAndBattery(r, bounds')
       IN /\ bounds' = b
          /\ df' = [full EXCEPT !.rows = SelectSeq(full.rows, Keep)]
    /\ pc' = "eff_filtered"
    /\ UNCHANGED <<script, csv, previous, pivot_data, insights, df_local, printed, aggregates,
                   contingency, tests, error>>

(* lines 43-48: the four counts are taken from the filtered df *)
EffLoadPrint ==
    /\ script = "efficiency" /\ pc = "eff_filtered"
    /\ LET CostUpper(r) == Gt(r.cost_efficiency, bounds.upper_bound_cost)
           CostLower(r) == Lt(r.cost_efficiency, bounds.lower_bound_cost)
           BatteryUpper(r) == Gt(r.Battery_Capacity, bounds.upper_bound_battery)
           BatteryLower(r) == Lt(r.Battery_Capacity, bounds.lower_bound_battery)
       IN printed' = <<Len(SelectSeq(df.rows, CostUpper)),
                       Len(SelectSeq(df.rows, CostLower)),
                       Len(SelectSeq(df.rows, BatteryUpper)),
                       Len(SelectSeq(df.rows, BatteryLower))>>
    /\ pc' = "eff_printed"
    /\ UNCHANGED <<script, csv, previous, pivot_data, insights, df, df_local, bounds, aggregates,
                   contingency, tests, error>>

(* lines 50-56: dropna(subset=numeric_cols) *)
EffLoadDropna ==
    /\ script = "efficiency" /\ pc = "eff_printed"
    /\ df' = [df EXCEPT !.rows = SelectSeq(df.rows, Complete)]
    /\ pc' = "loaded"
    /\ UNCHANGED <<script, csv, previous, pivot_data, insights, df_local, bounds, printed, aggregates,
                   contingency, tests, error>>

(* ------------------------------------------------------------------ *)
(* dashboard.py lines 23-26: calculate_descriptive_stats,               *)
(* analyze_age_efficiency_relationship, perform_statistical_tests       *)
(* ------------------------------------------------------------------ *)
(* ev_analysis.py lines 98-142 *)
EffDescriptiveStats ==
    /\ script = "efficiency" /\ pc = "loaded"
    /\ pc' = "described"
    /\ UNCHANGED <<script, csv, previous, pivot_data, insights, df, df_local, bounds, printed, aggregates,
                   contingency, tests, error>>

(* ev_analysis.py lines 58-81: the qcut result is stored in the frame   *)
(* that was passed in                                                   *)
AnalyzeAgeEfficiency ==
    /\ script = "efficiency" /\ pc = "described"
    /\ LET edges == QcutEdges(Col(df.rows, "Battery_Capacity"))
           groups == [i \in DOMAIN df.rows |-> Qcut(df.rows[i].Battery_Capacity, edges)]
       IN IF QcutFails(edges)
          THEN Raise("ValueError") /\ UNCHANGED <<df, aggregates>>
          ELSE /\ df' = Assign(df, "battery_capacity_group", groups)
               /\ aggregates' = [grouped_stats |->
                     GroupCounts(df'.rows, <<"Vehicle_Model", "battery_capacity_group">>)]
               /\ pc' = "analyzed"
               /\ UNCHANGED error
    /\ UNCHANGED <<script, csv, previous, pivot_data, insights, df_local, bounds, printed, contingency, tests>>

(* ev_analysis.py lines 83-96: f_oneway rejects fewer than two samples *)
EffStatisticalTests ==
    /\ script = "efficiency" /\ pc = "analyzed"
    /\ LET model_groups == [k \in DOMAIN GroupCounts(df.rows, <<"Vehicle_Model">>) |->
                              GroupSample(df.rows, <<"Vehicle_Model">>, k, "cost_efficiency")]
       IN IF Cardinality(DOMAIN model_groups) < 2
          THEN Raise("TypeError") /\ UNCHANGED tests
          ELSE /\ tests' = [name |-> "f_oneway", groups |-> model_groups,
                            result |-> "computed", warning |-> FALSE]
               /\ pc' = "done"
               /\ UNCHANGED error
    /\ UNCHANGED <<script, csv, previous, pivot_data, insights, df, df_local, bounds, printed, aggregates,
                   contingency>>

(* ------------------------------------------------------------------ *)
(* temperature_analysis.py : load_and_clean_temperature_data            *)
(* ------------------------------------------------------------------ *)
AmbientTemp(r) == r.Temperature
EnergyEfficiency(r) == Div(r.Energy_Consumed, r.Distance_Driven)
AnyTemperature(r) == TRUE
AtMost40(r) == Le(r.ambient_temp, F(40))
InsideEfficiency(r, b) ==
    Ge(r.energy_efficiency, b.lower_bound) /\ Le(r.energy_efficiency, b.upper_bound)
TempRange(r) == Cut(r.ambient_temp, TempBins, TempLabels)

(* lines 15-30 *)
TempLoadFilterTemperature ==
    /\ script = "temperature" /\ pc = "start"
    /\ LET raw == [columns |-> CsvColumns \cup {"index"}, rows |-> ReadCsv(csv)]
           full == Assign(Assign(raw,
                          "ambient_temp", [i \in DOMAIN raw.rows |-> AmbientTemp(raw.rows[i])]),
                          "energy_efficiency",
                          [i \in DOMAIN raw.rows |-> EnergyEfficiency(raw.rows[i])])
           original_count == Len(full.rows)
       IN /\ df' = [full EXCEPT !.rows = SelectSeq(full.rows, AtMost40)]
          /\ printed' = <<original_count - Len(df'.rows)>>
    /\ pc' = "temp_filtered"
    /\ UNCHANGED <<script, csv, previous, pivot_data, insights, df_local, bounds, aggregates,
                   contingency, tests, error>>

(* the IQR filter as it would be if it were applied a second time with  *)
(* fences recomputed from the rows the first pass kept                  *)
TempLoadFilterEfficiencyTwice ==
    /\ script = "temperature" /\ pc = "temp_filtered"
    /\ LET first == Fences(Col(df.rows, "energy_efficiency"))
           b1 == [NoBounds EXCEPT !.lower_bound = first[1], !.upper_bound = first[2]]
           Keep1(r) == InsideEfficiency(r, b1)
           kept == SelectSeq(df.rows, Keep1)
           fences == Fences(Col(kept, "energy_efficiency"))
           b == [NoBounds EXCEPT !.lower_bound = fences[1], !.upper_bound = fences[2]]
           original_count == Len(df.rows)
           Keep(r) == InsideEfficiency(r, bounds')
       IN /\ bounds' = b
          /\ df' = [df EXCEPT !.rows = SelectSeq(kept, Keep)]
          /\ printed' = Append(printed, original_count - Len(df'.rows))
    /\ pc' = "energy_filtered"
    /\ UNCHANGED <<script, csv, previous, pivot_data, insights, df_local, aggregates, contingency, tests, error>>

(* the IQR filter as it would be with the quartiles taken over every    *)
(* row of the file, the rows above 40 degrees included                  *)
TempLoadFilterEfficiencyAllRows ==
    /\ script = "temperature" /\ pc = "temp_filtered"
    /\ LET fences == Fences([i \in 1..Len(csv) |-> EnergyEfficiency(csv[i])])
           b == [NoBounds EXCEPT !.lower_bound = fences[1], !.upper_bound = fences[2]]
           original_count == Len(df.rows)
           Keep(r) == InsideEfficiency(r, bounds')
       IN /\ bounds' = b
          /\ df' = [df EXCEPT !.rows = SelectSeq(df.rows, Keep)]
          /\ printed' = Append(printed, original_count - Len(df'.rows))
    /\ pc' = "energy_filtered"
    /\ UNCHANGED <<script, csv, previous, pivot_data, insights, df_local, aggregates, contingency, tests, error>>

(* lines 32-43 *)
TempLoadFilterEfficiency ==
    /\ script = "temperature" /\ pc = "temp_filtered"
    /\ LET fences == Fences(Col(df.rows, "energy_efficiency"))
           b == [NoBounds EXCEPT !.lower_bound = fences[1], !.upper_bound = fences[2]]
           original_count == Len(df.rows)
           Keep(r) == InsideEfficiency(r, bounds')
       IN /\ bounds' = b
          /\ df' = [df EXCEPT !.rows = SelectSeq(df.rows, Keep)]
          /\ printed' = Append(printed, original_count - Len(df'.rows))
    /\ pc' = "energy_filtered"
    /\ UNCHANGED <<script, csv, previous, pivot_data, insights, df_local, aggregates, contingency, tests, error>>

(* lines 45-52 *)
TempLoadBuckets ==
    /\ script = "temperature" /\ pc = "energy_filtered"
    /\ df' = Assign(df, "temp_range", [i \in DOMAIN df.rows |-> TempRange(df.rows[i])])
    /\ pc' = "loaded"
    /\ UNCHANGED <<script, csv, previous, pivot_data, insights, df_local, bounds, printed, aggregates,
                   contingency, tests, error>>

(* ------------------------------------------------------------------ *)
(* temperature_analysis.py : analyze_temperature_impact, lines 104-157  *)
(* ------------------------------------------------------------------ *)
(* line 139: the guard of the one-way ANOVA *)
AnyRanges(ranges) == Len(ranges) >= 1
EnoughRanges(ranges) == Len(ranges) >= 2

(* line 140: the p-value f_oneway returns, in thousandths; its size is  *)
(* not computed here, and it is NaN for degenerate samples              *)
PValue(thousandths) == Num(thousandths)
PValues == {NaN, PValue(10), PValue(50)}

AnalyzeTemperatureImpact ==
    /\ script = "temperature" /\ pc = "loaded"
    /\ aggregates' = [temp_efficiency |-> GroupCounts(df.rows, <<"temp_range">>)]
    /\ LET ranges == Unique(Col(df.rows, "temp_range"))
           groups == [k \in DOMAIN GroupCounts(df.rows, <<"temp_range">>) |->
                        GroupSample(df.rows, <<"temp_range">>, k, "energy_efficiency")]
       IN IF EnoughRanges(ranges)
          THEN \E p_value \in PValues :
                  tests' = [name |-> "f_oneway", groups |-> groups,
                            result |-> "computed", warning |-> FALSE,
                            p_value |-> p_value]
          ELSE tests' = [name |-> "f_oneway", groups |-> <<>>,
                         result |-> "nan", warning |-> TRUE, p_value |-> NaN]
    /\ pc' = "analyzed"
    /\ UNCHANGED <<script, csv, previous, pivot_data, insights, df, df_local, bounds, printed, contingency, error>>

(* lines 54-102 *)
CreateTemperatureVisualizations ==
    /\ script = "temperature" /\ pc = "analyzed"
    /\ pc' = "visualized"
    /\ UNCHANGED <<script, csv, previous, pivot_data, insights, df, df_local, bounds, printed, aggregates,
                   contingency, tests, error>>

(* ------------------------------------------------------------------ *)
(* temperature_analysis.py : generate_insights, lines 159-179           *)
(* ------------------------------------------------------------------ *)
Significant == "Temperature impact is statistically significant"
NotSignificant == "Temperature impact is not statistically significant"

(* line 174: p_value < 0.05 *)
BelowThreshold(p_value) == Lt(p_value, PValue(50))

(* Series.idxmin(): the first label, in the order of the categories,    *)
(* that has the smallest value                                          *)
IdxMin(series) ==
    LET At(i) == series[<<TempLabels[i]>>]
        Has(i) == <<TempLabels[i]>> \in DOMAIN series
        first == CHOOSE i \in DOMAIN TempLabels :
                    /\ Has(i)
                    /\ \A j \in DOMAIN TempLabels :
                          Has(j) => /\ Le(At(i), At(j))
                                    /\ (j < i => Lt(At(i), At(j)))
    IN TempLabels[first]

(* temp_efficiency is the mean energy efficiency of each range of the   *)
(* dataset the analysis was given (line 124); idxmin of an empty Series *)
(* raises ValueError (line 163)                                         *)
GenerateInsights ==
    /\ script = "temperature" /\ pc = "visualized"
    /\ LET temp_efficiency ==
               [k \in DOMAIN aggregates.temp_efficiency |->
                   Mean(GroupSample(df.rows, <<"temp_range">>, k, "energy_efficiency"))]
       IN IF DOMAIN temp_efficiency = {}
          THEN Raise("ValueError") /\ UNCHANGED insights
          ELSE /\ insights' =
                     [temp_range_impact |-> IdxMin(temp_efficiency),
                      statistical_significance |->
                          IF BelowThreshold(tests.p_value)
                          THEN Significant ELSE NotSignificant]
               /\ pc' = "insights_generated"
               /\ UNCHANGED error
    /\ UNCHANGED <<script, csv, previous, pivot_data, df, df_local, bounds, printed,
                   aggregates, contingency, tests>>

Next ==
    \/ EffLoadFilter
    \/ EffLoadPrint
    \/ EffLoadDropna
    \/ EffDescriptiveStats
    \/ AnalyzeAgeEfficiency
    \/ EffStatisticalTests
    \/ TempLoadFilterTemperature
    \/ TempLoadFilterEfficiency
    \/ TempLoadBuckets
    \/ AnalyzeTemperatureImpact
    \/ CreateTemperatureVisualizations
    \/ GenerateInsights
    \/ PatLoadFilter
    \/ PatLoadPrint
    \/ PatLoadFeatures
    \/ AnalyzeChargingBehavior
    \/ PstAnova
    \/ PstChiSquare
    \/ PstTTest
    \/ CreatePatternVisualizations
    \/ PatDescriptiveStats

Spec == Init /\ [][Next]_vars

(* ------------------------------------------------------------------ *)
(* The same runs, one analysis at a time: analyze_charging_patterns     *)
(* (dashboard.py line 29), the two analyses whose loaders have an IQR   *)
(* filter (lines 23-26 and 32-35), the cost-efficiency analysis         *)
(* (23-26), the temperature analysis (32-35)                            *)
(* ------------------------------------------------------------------ *)
InitPatterns == script = "patterns" /\ Init

NextPatterns ==
    \/ PatLoadFilter
    \/ PatLoadPrint
    \/ PatLoadFeatures
    \/ AnalyzeChargingBehavior
    \/ PstAnova
    \/ PstChiSquare
    \/ PstTTest
    \/ CreatePatternVisualizations
    \/ PatDescriptiveStats

SpecPatterns == InitPatterns /\ [][NextPatterns]_vars

InitIqr == script \in {"efficiency", "temperature"} /\ Init

NextIqr ==
    \/ EffLoadFilter
    \/ EffLoadPrint
    \/ EffLoadDropna
    \/ EffDescriptiveStats
    \/ AnalyzeAgeEfficiency
    \/ EffStatisticalTests
    \/ TempLoadFilterTemperature
    \/ TempLoadFilterEfficiency
    \/ TempLoadBuckets
    \/ AnalyzeTemperatureImpact
    \/ CreateTemperatureVisualizations
    \/ GenerateInsights

SpecIqr == InitIqr /\ [][NextIqr]_vars

InitEfficiency == script = "efficiency" /\ Init

NextEfficiency ==
    \/ EffLoadFilter
    \/ EffLoadPrint
    \/ EffLoadDropna
    \/ EffDescriptiveStats
    \/ AnalyzeAgeEfficiency
    \/ EffStatisticalTests

SpecEfficiency == InitEfficiency /\ [][NextEfficiency]_vars

InitTemperature == script = "temperature" /\ Init

NextTemperature ==
    \/ TempLoadFilterTemperature
    \/ TempLoadFilterEfficiency
    \/ TempLoadBuckets
    \/ AnalyzeTemperatureImpact
    \/ CreateTemperatureVisualizations
    \/ GenerateInsights

SpecTemperature == InitTemperature /\ [][NextTemperature]_vars

(* ------------------------------------------------------------------ *)
(* The loaders alone, each called again on the same, unchanged file     *)
(* (dashboard.py lines 23, 32 and the scripts' own main functions call  *)
(* the same loader on the same path).  The locals of a call are new;    *)
(* whatever the model still holds from the last call is left in place,  *)
(* so a loader that read it would show.                                 *)
(* ------------------------------------------------------------------ *)
InitTwice ==
    /\ script \in {"patterns", "efficiency", "temperature"}
    /\ csv \in CASE script = "patterns" -> Files(PatternRows, MaxRerunRows)
               [] script = "efficiency" -> Files(EfficiencyRows, MaxRerunRows)
               [] OTHER -> Files(TemperatureRows, MaxRerunRows)
    /\ pc = "start"
    /\ df = EmptyFrame
    /\ df_local = EmptyFrame
    /\ bounds = NoBounds
    /\ printed = <<>>
    /\ aggregates = <<>>
    /\ contingency = NoTable
    /\ tests = NoTests
    /\ error = "none"
    /\ previous = <<>>
    /\ pivot_data = NoPivot
    /\ insights = NoInsights

RunLoaderAgain ==
    /\ pc = "loaded"
    /\ Len(previous) < MaxLoaderRuns - 1
    /\ previous' = Append(previous, df)
    /\ pc' = "start"
    /\ UNCHANGED <<script, csv, pivot_data, insights, df, df_local, bounds, printed,
                   aggregates, contingency, tests, error>>

NextTwice ==
    \/ EffLoadFilter
    \/ EffLoadPrint
    \/ EffLoadDropna
    \/ TempLoadFilterTemperature
    \/ TempLoadFilterEfficiency
    \/ TempLoadBuckets
    \/ PatLoadFilter
    \/ PatLoadPrint
    \/ PatLoadFeatures
    \/ RunLoaderAgain

SpecTwice == InitTwice /\ [][NextTwice]_vars

(* ------------------------------------------------------------------ *)
(* The two loaders with an IQR filter on files with graded outliers     *)
(* ------------------------------------------------------------------ *)
InitOutliers ==
    /\ script \in {"efficiency", "temperature"}
    /\ csv \in IF script = "efficiency"
               THEN Files(CostOutlierRows, MaxOutlierRows)
               ELSE Files(EnergyOutlierRows, MaxOutlierRows)
    /\ pc = "start"
    /\ df = EmptyFrame
    /\ df_local = EmptyFrame
    /\ bounds = NoBounds
    /\ printed = <<>>
    /\ aggregates = <<>>
    /\ contingency = NoTable
    /\ tests = NoTests
    /\ error = "none"
    /\ previous = <<>>
    /\ pivot_data = NoPivot
    /\ insights = NoInsights

NextIqrLoaders ==
    \/ EffLoadFilter
    \/ EffLoadPrint
    \/ EffLoadDropna
    \/ TempLoadFilterTemperature
    \/ TempLoadFilterEfficiency
    \/ TempLoadBuckets

SpecOutliers == InitOutliers /\ [][NextIqrLoaders]_vars

(* ================================================================== *)
(* Properties                                                           *)
(* ================================================================== *)
Indexes(rows) == {rows[j].index : j \in DOMAIN rows}
PatternsLoaded == script = "patterns" /\ pc # "start"
EfficiencyFiltered == script = "efficiency" /\ pc # "start"
TemperatureFiltered == script = "temperature" /\ pc \notin {"start", "temp_filtered"}
TemperatureLoaded ==
    script = "temperature" /\ pc \notin {"start", "temp_filtered", "energy_filtered"}

(* the derived ratios of the rows of the file *)
CsvPercentage(i) == Sub(csv[i].SoC_End, csv[i].SoC_Start)
CsvCostEfficiency == [i \in 1..Len(csv) |-> Div(csv[i].Charging_Cost, csv[i].Energy_Consumed)]
CsvEnergyEfficiency == [i \in 1..Len(csv) |-> Div(csv[i].Energy_Consumed, csv[i].Distance_Driven)]
CsvPercentageInRange(i) == Ge(CsvPercentage(i), F(0)) /\ Le(CsvPercentage(i), F(100))

(* C1: in the charging-patterns loader a row of the file is in the      *)
(* returned dataset if and only if its percentage charged (end SoC      *)
(* minus start SoC) lies in [0, 100].                                   *)
C1_RetainedIffInRange ==
    PatternsLoaded =>
        \A i \in 1..Len(csv) : (i \in Indexes(df.rows)) <=> CsvPercentageInRange(i)

C1_Witness ==
    /\ script = "patterns" /\ pc = "loaded"
    /\ \E i, j \in 1..Len(csv) :
          /\ CsvPercentage(i) = F(70) /\ i \in Indexes(df.rows)
          /\ CsvPercentage(j) = F(-80) /\ j \notin Indexes(df.rows)

(* C2: every record kept by an IQR filter has the filtered field inside *)
(* the fences the loader computed when it filtered: cost_efficiency in  *)
(* the cost-efficiency loader, energy_efficiency in the temperature     *)
(* loader.                                                              *)
C2_InsideComputedFences ==
    /\ EfficiencyFiltered =>
          \A j \in DOMAIN df.rows :
              /\ Le(bounds.lower_bound_cost, df.rows[j].cost_efficiency)
              /\ Le(df.rows[j].cost_efficiency, bounds.upper_bound_cost)
    /\ TemperatureFiltered =>
          \A j \in DOMAIN df.rows :
              /\ Le(bounds.lower_bound, df.rows[j].energy_efficiency)
              /\ Le(df.rows[j].energy_efficiency, bounds.upper_bound)

C2_Witness ==
    /\ script = "efficiency" /\ pc = "loaded"
    /\ df.rows # <<>>
    /\ \E i \in 1..Len(csv) :
          /\ IsFinite(CsvCostEfficiency[i])
          /\ Gt(CsvCostEfficiency[i], bounds.upper_bound_cost)
          /\ i \notin Indexes(df.rows)

(* C3: the count printed for a filtering step is the number of rows     *)
(* that step removed, in all three loaders.                             *)
Count(S) == Cardinality(S)
C3_PrintedCountsAreRemovedCounts ==
    /\ (script = "patterns" /\ pc = "pat_printed") =>
          /\ printed[1] = Count({i \in 1..Len(csv) : Lt(CsvPercentage(i), F(0))})
          /\ printed[2] = Count({i \in 1..Len(csv) : Gt(CsvPercentage(i), F(100))})
    /\ (script = "efficiency" /\ pc = "eff_printed") =>
          /\ printed[1] = Count({i \in 1..Len(csv) :
                                   Gt(CsvCostEfficiency[i], bounds.upper_bound_cost)})
          /\ printed[2] = Count({i \in 1..Len(csv) :
                                   Lt(CsvCostEfficiency[i], bounds.lower_bound_cost)})
          /\ printed[3] = Count({i \in 1..Len(csv) :
                                   Gt(csv[i].Battery_Capacity, bounds.upper_bound_battery)})
          /\ printed[4] = Count({i \in 1..Len(csv) :
                                   Lt(csv[i].Battery_Capacity, bounds.lower_bound_battery)})
    /\ (script = "temperature" /\ pc = "energy_filtered") =>
          printed[1] + printed[2] = Len(csv) - Len(df.rows)

(* C4: once a loader has returned the cleaned dataset, no later step    *)
(* changes its rows or its set of columns.                              *)
LoaderReturned == pc \notin {"start", "pat_filtered", "pat_printed", "eff_filtered",
                             "eff_printed", "temp_filtered", "energy_filtered"}
C4_CleanedDatasetNeverMutated == [][LoaderReturned => df' = df]_vars

(* C5 as stated: the efficiency quartiles are computed only over rows   *)
(* that already passed the percentage-charged [0, 100] filter.          *)
InRangeOnly(col) ==
    LET rec == [i \in 1..Len(col) |-> [i |-> i, x |-> col[i]]]
        Keep(e) == CsvPercentageInRange(e.i)
        kept == SelectSeq(rec, Keep)
    IN [j \in 1..Len(kept) |-> kept[j].x]

C5_QuartilesAfterPercentageFilter ==
    EfficiencyFiltered =>
        <<bounds.lower_bound_cost, bounds.upper_bound_cost>>
            = Fences(InRangeOnly(CsvCostEfficiency))

(* C5 amended: no percentage filter precedes the IQR filters.  The      *)
(* cost-efficiency fences come from the quartiles over every row of the *)
(* file, the energy-efficiency fences from the quartiles over the rows  *)
(* with temperature <= 40, whatever their percentage charged; the       *)
(* missing-value drop comes after the IQR filter and leaves the fences  *)
(* as they are.                                                         *)
TemperatureOk(col) ==
    LET rec == [i \in 1..Len(col) |-> [i |-> i, x |-> col[i]]]
        Keep(e) == Le(csv[e.i].Temperature, F(40))
        kept == SelectSeq(rec, Keep)
    IN [j \in 1..Len(kept) |-> kept[j].x]

C5_QuartilesIgnorePercentage ==
    /\ EfficiencyFiltered =>
          <<bounds.lower_bound_cost, bounds.upper_bound_cost>>
              = Fences(CsvCostEfficiency)
    /\ TemperatureFiltered =>
          <<bounds.lower_bound, bounds.upper_bound>>
              = Fences(TemperatureOk(CsvEnergyEfficiency))

C5_Witness ==
    /\ script = "efficiency" /\ pc = "loaded"
    /\ \E i \in 1..Len(csv) : ~CsvPercentageInRange(i) /\ i \in Indexes(df.rows)
    /\ <<bounds.lower_bound_cost, bounds.upper_bound_cost>>
           # Fences(InRangeOnly(CsvCostEfficiency))
    /\ IsFinite(bounds.lower_bound_cost)

(* C6: the time-of-day bucket is Night for h < 6, Morning for           *)
(* 6 <= h < 12, Afternoon for 12 <= h < 18 and Evening for h >= 18.     *)
HalfOpenBucket(h) ==
    IF h < 6 THEN "Night"
    ELSE IF h < 12 THEN "Morning"
    ELSE IF h < 18 THEN "Afternoon" ELSE "Evening"

C6_LowerInclusiveBuckets ==
    (script = "patterns" /\ "Time_of_Day" \in df.columns) =>
        \A j \in DOMAIN df.rows :
            df.rows[j].Time_of_Day = HalfOpenBucket(df.rows[j].Start_Hour)

(* C7: every record the temperature loader returns has ambient          *)
(* temperature <= 40 and one of the five temperature-range labels;      *)
(* records above 40 or without a temperature are gone before the        *)
(* buckets are assigned.                                                *)
C7_TemperatureBucketed ==
    script = "temperature" =>
        /\ pc # "start" =>
              \A j \in DOMAIN df.rows : Le(df.rows[j].ambient_temp, F(40))
        /\ pc \in {"temp_filtered", "energy_filtered"} => "temp_range" \notin df.columns
        /\ TemperatureLoaded =>
              /\ "temp_range" \in df.columns
              /\ \A j \in DOMAIN df.rows : df.rows[j].temp_range \in Range(TempLabels)
              /\ \A i \in 1..Len(csv) :
                    (IsNaN(csv[i].Temperature) \/ Gt(csv[i].Temperature, F(40)))
                        => i \notin Indexes(df.rows)

C7_Witness ==
    /\ script = "temperature" /\ pc = "loaded"
    /\ \E i, j, k \in 1..Len(csv) :
          /\ csv[i].Temperature = F(41)
          /\ IsNaN(csv[j].Temperature)
          /\ csv[k].Temperature = F(40) /\ k \in Indexes(df.rows)
    /\ \E j \in DOMAIN df.rows : df.rows[j].temp_range = "30-40"

(* C8: in every grouped aggregation over the cleaned dataset the        *)
(* per-group counts sum to the number of cleaned records.               *)
C8_GroupCountsSumToTotal ==
    pc # "raised" =>
        \A t \in DOMAIN aggregates : Total(aggregates[t]) = Len(df.rows)

(* C9: the cells of the User Type by Time of Day contingency table that *)
(* feeds the chi-square test sum to the number of rows of the dataset.  *)
C9_ContingencyCellsSumToN ==
    (script = "patterns" /\ pc = "pst_chi") => Total(contingency) = Len(df_local.rows)

(* C10: with fewer than two user types the t-test, and with fewer than  *)
(* two vehicle models the one-way ANOVA, does not raise.                *)
C10_TestsDoNotRaise ==
    /\ (script = "patterns" /\ Len(Unique(Col(df.rows, "User_Type"))) < 2)
           => error # "IndexError"
    /\ (script = "efficiency" /\ Cardinality(Levels(df.rows, "Vehicle_Model")) < 2)
           => error # "TypeError"

TemperatureAnalyzed == script = "temperature" /\ pc \in {"analyzed", "visualized"}
RangesOf(rows) == {rows[j].temp_range : j \in DOMAIN rows}

(* C11: in analyze_temperature_impact, with fewer than two temperature  *)
(* ranges in the cleaned dataset the ANOVA result is NaN/NaN, a warning *)
(* is printed and nothing is raised; with two or more the test is run   *)
(* over exactly the non-empty ranges, each sample being the energy      *)
(* efficiencies of the records of that range.                           *)
C11_AnovaGuardedByRangeCount ==
    /\ (script = "temperature" /\ error # "none") => tests.name = "f_oneway"
    /\ TemperatureAnalyzed =>
          IF Cardinality(RangesOf(df.rows)) < 2
          THEN tests.result = "nan" /\ tests.warning /\ tests.groups = <<>>
          ELSE /\ tests.result = "computed" /\ ~tests.warning
               /\ DOMAIN tests.groups = {<<g>> : g \in RangesOf(df.rows)}
               /\ \A g \in RangesOf(df.rows) :
                     /\ tests.groups[<<g>>] # <<>>
                     /\ LET InRange(r) == r.temp_range = g
                        IN tests.groups[<<g>>]
                              = Col(SelectSeq(df.rows, InRange), "energy_efficiency")

C11_Witness ==
    /\ TemperatureAnalyzed
    /\ Cardinality(RangesOf(df.rows)) = 1
    /\ Len(df.rows) >= 2
    /\ tests.result = "nan" /\ tests.warning

(* C12: no record whose ratio has a zero denominator (energy efficiency *)
(* with zero distance driven, cost efficiency with zero energy          *)
(* consumed) is in the dataset a loader returns: every returned record  *)
(* has a finite ratio.                                                  *)
C12_ZeroDenominatorRowsRemoved ==
    /\ (script = "efficiency" /\ pc \notin {"start", "eff_filtered", "eff_printed"}) =>
          \A j \in DOMAIN df.rows :
              /\ df.rows[j].Energy_Consumed # F(0)
              /\ IsFinite(df.rows[j].cost_efficiency)
    /\ TemperatureLoaded =>
          \A j \in DOMAIN df.rows :
              /\ df.rows[j].Distance_Driven # F(0)
              /\ IsFinite(df.rows[j].energy_efficiency)

(* C13: the dataset a loader returns has no record with a missing value *)
(* in a numeric field its analysis reads: the five numeric columns of   *)
(* the cost-efficiency loader, Percentage Charged and Energy Consumed   *)
(* in the charging-patterns loader, ambient temperature and energy      *)
(* efficiency in the temperature loader.                                *)
C13_NoMissingNumericField ==
    LoaderReturned =>
        \A j \in DOMAIN df.rows :
            CASE script = "efficiency" -> \A c \in numeric_cols : ~IsNaN(df.rows[j][c])
              [] script = "patterns" ->
                    /\ ~IsNaN(df.rows[j].Percentage_Charged)
                    /\ ~IsNaN(df.rows[j].Energy_Consumed)
              [] OTHER ->
                    /\ ~IsNaN(df.rows[j].ambient_temp)
                    /\ ~IsNaN(df.rows[j].energy_efficiency)

PairRecords(t, d) ==
    {j \in DOMAIN df.rows : df.rows[j].Time_of_Day = t /\ df.rows[j].Day_of_Week = d}

CsvBattery == [i \in 1..Len(csv) |-> csv[i].Battery_Capacity]
InsideFences(x, fences) == Le(fences[1], x) /\ Le(x, fences[2])

C16_SinglePassFences ==
    /\ EfficiencyFiltered =>
          /\ <<bounds.lower_bound_cost, bounds.upper_bound_cost>> = Fences(CsvCostEfficiency)
          /\ <<bounds.lower_bound_battery, bounds.upper_bound_battery>> = Fences(CsvBattery)
    /\ (script = "efficiency" /\ pc \in {"eff_filtered", "eff_printed"}) =>
          Indexes(df.rows) =
              {i \in 1..Len(csv) :
                  /\ InsideFences(CsvCostEfficiency[i], Fences(CsvCostEfficiency))
                  /\ InsideFences(CsvBattery[i], Fences(CsvBattery))}
    /\ TemperatureFiltered =>
          /\ <<bounds.lower_bound, bounds.upper_bound>>
                = Fences(TemperatureOk(CsvEnergyEfficiency))
          /\ Indexes(df.rows) =
                {i \in 1..Len(csv) :
                    /\ Le(csv[i].Temperature, F(40))
                    /\ InsideFences(CsvEnergyEfficiency[i],
                                    Fences(TemperatureOk(CsvEnergyEfficiency)))}

(* a returned record outside the fences of the returned dataset *)
C16_Witness ==
    /\ script = "temperature" /\ pc = "loaded"
    /\ Len(df.rows) < Len(csv)
    /\ \E j \in DOMAIN df.rows :
          /\ IsFinite(df.rows[j].energy_efficiency)
          /\ Gt(df.rows[j].energy_efficiency,
                Fences(Col(df.rows, "energy_efficiency"))[2])

(* C17: the cost-efficiency fences are Q1 - 1.5 IQR and Q3 + 1.5 IQR    *)
(* with the quartiles taken over the cost efficiency of every row read  *)
(* from the file, the rows that the battery fences or the missing-value *)
(* drop remove included.                                                *)
C17_CostFencesOverEveryRowRead ==
    EfficiencyFiltered =>
        LET Q1 == Quantile(CsvCostEfficiency, 1)
            Q3 == Quantile(CsvCostEfficiency, 3)
        IN /\ bounds.lower_bound_cost = Sub(Q1, Times(Sub(Q3, Q1), 3, 2))
           /\ bounds.upper_bound_cost = Add(Q3, Times(Sub(Q3, Q1), 3, 2))

(* a row without a vehicle age took part in the quartiles and changed   *)
(* the fences                                                           *)
C17_Witness ==
    /\ script = "efficiency" /\ pc = "loaded"
    /\ IsFinite(bounds.lower_bound_cost) /\ IsFinite(bounds.upper_bound_cost)
    /\ \E i \in 1..Len(csv) : IsNaN(csv[i].Vehicle_Age) /\ i \notin Indexes(df.rows)
    /\ LET Aged(e) == ~IsNaN(csv[e.i].Vehicle_Age)
           rec == [i \in 1..Len(csv) |-> [i |-> i, x |-> CsvCostEfficiency[i]]]
           kept == SelectSeq(rec, Aged)
       IN Fences([j \in 1..Len(kept) |-> kept[j].x])
             # <<bounds.lower_bound_cost, bounds.upper_bound_cost>>

(* C18: in the temperature loader the energy-efficiency quartiles are   *)
(* taken over the rows left after the records above 40 degrees have     *)
(* been removed: taking a record above 40 out of the file, or adding    *)
(* one to it, gives the same fences.  The loader computes no            *)
(* cost-efficiency bounds, so the fences cannot depend on them.         *)
EnergyFencesOf(file) ==
    LET NotHot(r) == Le(r.Temperature, F(40))
        kept == SelectSeq(file, NotHot)
    IN Fences([j \in 1..Len(kept) |->
                  Div(kept[j].Energy_Consumed, kept[j].Distance_Driven)])
Without(file, i) == SubSeq(file, 1, i - 1) \o SubSeq(file, i + 1, Len(file))
HotRows == {[BaseRow EXCEPT !.Temperature = F(41), !.Energy_Consumed = e] :
               e \in {F(2), F(8), F(0)}}

C18_FencesIgnoreRecordsAbove40 ==
    TemperatureFiltered =>
        LET fences == <<bounds.lower_bound, bounds.upper_bound>>
        IN /\ \A i \in 1..Len(csv) :
                 Gt(csv[i].Temperature, F(40)) => fences = EnergyFencesOf(Without(csv, i))
           /\ \A r \in HotRows : fences = EnergyFencesOf(Append(csv, r))
           /\ IsNaN(bounds.lower_bound_cost) /\ IsNaN(bounds.upper_bound_cost)

(* a record above 40 that would have moved the fences *)
C18_Witness ==
    /\ script = "temperature" /\ pc = "loaded"
    /\ df.rows # <<>>
    /\ \E i \in 1..Len(csv) : Gt(csv[i].Temperature, F(40))
    /\ IsFinite(bounds.lower_bound) /\ IsFinite(bounds.upper_bound)
    /\ <<bounds.lower_bound, bounds.upper_bound>> # Fences(CsvEnergyEfficiency)

(* C19: the t-test compares the percentage charged of the first two     *)
(* user types in order of first appearance in the cleaned dataset; the  *)
(* records of a third or later user type are in neither sample.         *)
PercentagesOf(u) ==
    LET OfType(r) == r.User_Type = u
    IN Col(SelectSeq(df.rows, OfType), "Percentage_Charged")

C19_TTestOnFirstTwoUserTypes ==
    (script = "patterns" /\ pc \in {"tested", "visualized", "done"}) =>
        LET Known(u) == u # NA
            types == Unique(SelectSeq(Col(df.rows, "User_Type"), Known))
        IN /\ Len(types) >= 2
           /\ tests.groups = <<PercentagesOf(types[1]), PercentagesOf(types[2])>>

(* C20: a record is in the range 'Below 0' only if its ambient          *)
(* temperature is strictly below 0, and a record at exactly 0, 10, 20   *)
(* or 30 degrees is in the range that starts at that value.             *)
RangeStartingAt(t) ==
    IF Lt(t, F(0)) THEN "Below 0"
    ELSE IF Lt(t, F(10)) THEN "0-10"
    ELSE IF Lt(t, F(20)) THEN "10-20"
    ELSE IF Lt(t, F(30)) THEN "20-30" ELSE "30-40"

C20_RangeStartsAtItsLowerEdge ==
    TemperatureLoaded =>
        \A j \in DOMAIN df.rows :
            df.rows[j].temp_range = RangeStartingAt(df.rows[j].ambient_temp)

(* C21: in the cost-efficiency loader the cost-efficiency fences and    *)
(* the battery-capacity fences are both computed from the unfiltered    *)
(* dataset and applied in one filter: the rows kept are those that pass *)
(* the two criteria in either order, every returned record has          *)
(* cost_efficiency and Battery Capacity inside their fences, and a row  *)
(* with a missing value in either field is removed by this filter.      *)
CostCriterion(S, fences) == {i \in S : InsideFences(CsvCostEfficiency[i], fences)}
BatteryCriterion(S, fences) == {i \in S : InsideFences(CsvBattery[i], fences)}

C21_BothFencesFromUnfilteredOneFilter ==
    /\ (script = "efficiency" /\ pc \in {"eff_filtered", "eff_printed"}) =>
          LET cost == Fences(CsvCostEfficiency)
              battery == Fences(CsvBattery)
              kept == Indexes(df.rows)
          IN /\ bounds = [NoBounds EXCEPT
                            !.lower_bound_cost = cost[1], !.upper_bound_cost = cost[2],
                            !.lower_bound_battery = battery[1],
                            !.upper_bound_battery = battery[2]]
             /\ kept = BatteryCriterion(CostCriterion(1..Len(csv), cost), battery)
             /\ kept = CostCriterion(BatteryCriterion(1..Len(csv), battery), cost)
             /\ \A i \in 1..Len(csv) :
                   (IsNaN(CsvCostEfficiency[i]) \/ IsNaN(CsvBattery[i])) => i \notin kept
    /\ EfficiencyFiltered =>
          \A j \in DOMAIN df.rows :
              /\ df.rows[j].cost_efficiency = CsvCostEfficiency[df.rows[j].index]
              /\ df.rows[j].Battery_Capacity = CsvBattery[df.rows[j].index]
              /\ InsideFences(df.rows[j].cost_efficiency,
                              <<bounds.lower_bound_cost, bounds.upper_bound_cost>>)
              /\ InsideFences(df.rows[j].Battery_Capacity,
                              <<bounds.lower_bound_battery, bounds.upper_bound_battery>>)

(* one row removed by the cost criterion alone, one by the battery      *)
(* criterion alone, and rows returned                                   *)
C21_Witness ==
    /\ script = "efficiency" /\ pc = "eff_filtered"
    /\ df.rows # <<>>
    /\ LET cost == CostCriterion(1..Len(csv), Fences(CsvCostEfficiency))
           battery == BatteryCriterion(1..Len(csv), Fences(CsvBattery))
       IN \E i \in battery \ cost, j \in cost \ battery :
             /\ IsFinite(CsvBattery[j])
             /\ i \notin Indexes(df.rows) /\ j \notin Indexes(df.rows)

(* C22: generate_insights applied to an analysis result whose ANOVA     *)
(* degraded to a NaN p-value (fewer than two temperature ranges)        *)
(* reports "Temperature impact is not statistically significant" and    *)
(* never "statistically significant"; the "significant" message is      *)
(* produced only when a p-value was computed and is below 0.05.         *)
InsightsRequested == script = "temperature" /\ pc \in {"insights_generated", "raised"}

C22_NanPValueReportedNotSignificant ==
    /\ (InsightsRequested /\ tests.result = "nan") =>
          /\ pc = "insights_generated"
          /\ insights.statistical_significance = NotSignificant
    /\ (script = "temperature" /\ pc = "insights_generated"
           /\ insights.statistical_significance = Significant) =>
          /\ tests.result = "computed"
          /\ IsFinite(tests.p_value) /\ Lt(tests.p_value, PValue(50))

====
